---- MODULE Spec2Model ----
(***************************************************************************)
(* Model of scripts/fix_all_imports.py: the import-path rewriter that is   *)
(* run after the files of systems/ were moved into subfolders.             *)
(*                                                                         *)
(* A file's text is a sequence of import clauses  from <q>path<q> .  Every *)
(* regular expression of the script starts with  from ['"]  and goes on    *)
(* with the first characters of the path, so a clause is kept as its       *)
(* opening quote, its path (a string, matched character by character) and  *)
(* its closing quote.  No pattern can match a line break or a quote inside *)
(* a path, so re.sub acts on each clause on its own.                       *)
(***************************************************************************)
EXTENDS Integers, Sequences, FiniteSets, TLC

VARIABLES
    \* ---- the rewriter functions applied to one text (SpecFn)
    text,         \* the current text
    before,       \* the text the last applied function was given
    last_op,      \* "none" | "external" | "cross" | "cross_reordered"
    cur_folder,   \* top-level subfolder of the file ("" for a root file)
    depth,        \* depth of the file below systems/
    \* ---- a run of the tool over a tree (Spec)
    disk,         \* file (its parts below SYSTEMS_DIR) -> text
    tree0,        \* the tree as it was before the tool touched it
    pc,           \* "idle" | "folders" | "files" | "done" | "returned"
    run,          \* number of main() runs started
    sf,           \* index into SUBFOLDERS of main's outer loop
    pending,      \* files rglob has yet to yield in the current folder
    total_fixed,  \* main's counter
    log,          \* the "Fixed: <path>" lines printed in this run
    summary,      \* the printed total, NoSummary before it is printed
    visits,       \* file -> number of fix_file calls main made in this run
    written,      \* the files write_text was called on in this run, in order
    call          \* the last fix_file call: file, text read, result, wrote

vars == <<text, before, last_op, cur_folder, depth, disk, tree0, pc, run, sf,
          pending, total_fixed, log, summary, visits, written, call>>

fnVars == <<text, before, last_op, cur_folder, depth>>
toolVars == <<disk, tree0, pc, run, sf, pending, total_fixed, log, summary,
              visits, written, call>>

----------------------------------------------------------------------------
\* Bounds of the model.

\* Files of the function-level specification sit at depth 0..MaxDepth.
MaxDepth == 4
\* Input paths start with "./" or with 1..MaxHops "../".
MaxHops == 3
\* main() is run at most MaxRuns times in a row on the same tree.
MaxRuns == 2

----------------------------------------------------------------------------
\* Strings.

SQ == "'"
DQ == "\""

\* The character class ['\"] of the patterns.
QuoteClass == {SQ, DQ}

\* \w restricted to ASCII.
WordChars ==
    {"a","b","c","d","e","f","g","h","i","j","k","l","m","n","o","p","q","r",
     "s","t","u","v","w","x","y","z","A","B","C","D","E","F","G","H","I","J",
     "K","L","M","N","O","P","Q","R","S","T","U","V","W","X","Y","Z","0","1",
     "2","3","4","5","6","7","8","9","_"}

StartsWith(s, p) == Len(s) >= Len(p) /\ SubSeq(s, 1, Len(p)) = p

EndsWith(s, p) == Len(s) >= Len(p) /\ SubSeq(s, Len(s) - Len(p) + 1, Len(s)) = p

DropPrefix(s, n) == SubSeq(s, n + 1, Len(s))

\* Python's  s * n .
RECURSIVE Repeat(_, _)
Repeat(s, n) == IF n <= 0 THEN "" ELSE s \o Repeat(s, n - 1)

\* Every character of s is in the class [\w/].
RECURSIVE AllWordOrSlash(_, _)
AllWordOrSlash(s, i) ==
    IF i > Len(s) THEN TRUE
    ELSE /\ SubSeq(s, i, i) \in WordChars \cup {"/"}
         /\ AllWordOrSlash(s, i + 1)

\* Python's  s.split('/')[0] .
RECURSIVE UpToSlash(_, _)
UpToSlash(s, i) ==
    IF i > Len(s) THEN s
    ELSE IF SubSeq(s, i, i) = "/" THEN SubSeq(s, 1, i - 1)
    ELSE UpToSlash(s, i + 1)

SplitFirst(s) == UpToSlash(s, 1)

----------------------------------------------------------------------------
\* Configuration.

SUBFOLDERS ==
    <<"agents", "world", "social", "economy", "conflict", "structures",
      "lifecycle", "objectives", "core">>

\* The dict, as the sequence of its items in insertion order.
SYSTEM_RELOCATIONS == <<
    <<"InventorySystem", "economy/InventorySystem">>,
    <<"EconomySystem", "economy/EconomySystem">>,
    <<"EnhancedCraftingSystem", "economy/EnhancedCraftingSystem">>,
    <<"RecipeDiscoverySystem", "economy/RecipeDiscoverySystem">>,
    <<"ResourceReservationSystem", "economy/ResourceReservationSystem">>,
    <<"SocialSystem", "social/SocialSystem">>,
    <<"MarriageSystem", "social/MarriageSystem">>,
    <<"HouseholdSystem", "social/HouseholdSystem">>,
    <<"ReputationSystem", "social/ReputationSystem">>,
    <<"GenealogySystem", "social/GenealogySystem">>,
    <<"WorldResourceSystem", "world/WorldResourceSystem">>,
    <<"ItemGenerationSystem", "world/ItemGenerationSystem">>,
    <<"ProductionSystem", "world/ProductionSystem">>,
    <<"CombatSystem", "conflict/CombatSystem">>,
    <<"ConflictResolutionSystem", "conflict/ConflictResolutionSystem">>,
    <<"BuildingSystem", "structures/BuildingSystem">>,
    <<"GovernanceSystem", "structures/GovernanceSystem">>,
    <<"LifeCycleSystem", "lifecycle/LifeCycleSystem">>,
    <<"TaskSystem", "objectives/TaskSystem">>,
    <<"TimeSystem", "core/TimeSystem">>,
    <<"ChunkLoadingSystem", "core/ChunkLoadingSystem">>,
    <<"TerrainSystem", "core/TerrainSystem">>,
    <<"AISystem", "agents/AISystem">>,
    <<"RoleSystem", "agents/RoleSystem">>,
    <<"EquipmentSystem", "agents/EquipmentSystem">>,
    <<"AmbientAwarenessSystem", "agents/AmbientAwarenessSystem">>,
    <<"NeedsSystem", "agents/needs/NeedsSystem">>,
    <<"NeedsBatchProcessor", "agents/needs/NeedsBatchProcessor">>,
    <<"MovementSystem", "agents/movement/MovementSystem">>,
    <<"MovementBatchProcessor", "agents/movement/MovementBatchProcessor">>,
    <<"SharedKnowledgeSystem", "agents/ai/SharedKnowledgeSystem">>,
    <<"AnimalSystem", "world/animals/AnimalSystem">>,
    <<"AnimalBatchProcessor", "world/animals/AnimalBatchProcessor">>,
    <<"AnimalBehavior", "world/animals/AnimalBehavior">> >>

\* A file is the tuple of the parts of its path relative to SYSTEMS_DIR.
get_depth(filepath) == Len(filepath) - 1

----------------------------------------------------------------------------
\* An import clause.

Import(q1, p, q2) == [oq |-> q1, path |-> p, cq |-> q2]

----------------------------------------------------------------------------
\* fix_external_imports

\* The list with one increment (depth + 2) used for every root, also for the
\* three roots that are three levels up.
ExternalPatternsOneIncrement(d) == <<
    [lit |-> "../../types/", lookahead |-> {},
     repl |-> Repeat("../", d + 2) \o "types/"],
    [lit |-> "../../world/", lookahead |-> {},
     repl |-> Repeat("../", d + 2) \o "world/"],
    [lit |-> "../../../shared/", lookahead |-> {},
     repl |-> Repeat("../", d + 2) \o "shared/"],
    [lit |-> "../../../infrastructure/", lookahead |-> {},
     repl |-> Repeat("../", d + 2) \o "infrastructure/"],
    [lit |-> "../../../config/", lookahead |-> {},
     repl |-> Repeat("../", d + 2) \o "config/"],
    [lit |-> "../core/",
     lookahead |-> {"TimeSystem", "ChunkLoadingSystem", "TerrainSystem"},
     repl |-> Repeat("../", d + 1) \o "core/"] >>

\* The list `patterns`.  Each regular expression is  from ['\"]  followed by
\* the literal `lit` and, for the last one, the negative lookahead
\* (?!TimeSystem|ChunkLoadingSystem|TerrainSystem); each replacement is
\* from '  followed by `repl` (for the last one "\\1" is the group "core/").
ExternalPatterns(d) == <<
    [lit |-> "../../types/", lookahead |-> {},
     repl |-> Repeat("../", d + 2) \o "types/"],
    [lit |-> "../../world/", lookahead |-> {},
     repl |-> Repeat("../", d + 2) \o "world/"],
    [lit |-> "../../../shared/", lookahead |-> {},
     repl |-> Repeat("../", d + 3) \o "shared/"],
    [lit |-> "../../../infrastructure/", lookahead |-> {},
     repl |-> Repeat("../", d + 3) \o "infrastructure/"],
    [lit |-> "../../../config/", lookahead |-> {},
     repl |-> Repeat("../", d + 3) \o "config/"],
    [lit |-> "../core/",
     lookahead |-> {"TimeSystem", "ChunkLoadingSystem", "TerrainSystem"},
     repl |-> Repeat("../", d + 1) \o "core/"] >>

\* The pattern p matches at the start of the clause: the opening quote is in
\* the class, the path goes on with the literal, and what follows the literal
\* does not start with an identifier of the lookahead.
ExternalMatch(p, imp) ==
    /\ imp.oq \in QuoteClass
    /\ StartsWith(imp.path, p.lit)
    /\ \A x \in p.lookahead : ~StartsWith(DropPrefix(imp.path, Len(p.lit)), x)

\* re.sub(pattern, "from " + q + repl, content): the match, which ends with
\* the literal, is replaced; the rest of the path and the closing quote are
\* not part of the match and stay.
ExternalSub(p, q, content) ==
    [k \in 1..Len(content) |->
        IF ExternalMatch(p, content[k])
        THEN [oq |-> q,
              path |-> p.repl \o DropPrefix(content[k].path, Len(p.lit)),
              cq |-> content[k].cq]
        ELSE content[k]]

\* The loop body: the first re.sub writes the replacement with its quote
\* turned into a double quote.  The second re.sub uses
\* pattern.replace('[\'"]', "'"); the raw pattern holds the five characters
\* ['\"] and not the four characters ['"], so replace() returns the pattern
\* unchanged and the second re.sub matches either quote too.
RECURSIVE ExternalLoop(_, _, _)
ExternalLoop(content, patterns, i) ==
    IF i > Len(patterns) THEN content
    ELSE ExternalLoop(
             ExternalSub(patterns[i], SQ, ExternalSub(patterns[i], DQ, content)),
             patterns, i + 1)

fix_external_imports(content, d) == ExternalLoop(content, ExternalPatterns(d), 1)

----------------------------------------------------------------------------
\* fix_cross_system_imports

\* The patterns with the third one written without the name:
\*   3:  from ['\"]\./[\w/]+['\"]
CrossMatchAnyModule(i, system_name, imp) ==
    /\ imp.oq \in QuoteClass
    /\ imp.cq \in QuoteClass
    /\ CASE i = 1 -> imp.path = "./" \o system_name
         [] i = 2 -> imp.path = "../" \o system_name
         [] i = 3 ->
              /\ StartsWith(imp.path, "./")
              /\ Len(imp.path) >= 3
              /\ AllWordOrSlash(DropPrefix(imp.path, 2), 1)

\* The i-th pattern of the list `patterns` built for system_name matches the
\* clause.  All three end with the closing quote, so the path is matched whole.
\*   1:  from ['\"]\./(NAME)['\"]
\*   2:  from ['\"]\.\./NAME['\"]
\*   3:  from ['\"]\./([\w/]+/)?NAME['\"]
\* In each of them "/NAME" is followed by the closing quote.
CrossMatch(i, system_name, imp) ==
    /\ EndsWith(imp.path, "/" \o system_name)
    /\ imp.oq \in QuoteClass
    /\ imp.cq \in QuoteClass
    /\ CASE i = 1 -> imp.path = "./" \o system_name
         [] i = 2 -> imp.path = "../" \o system_name
         [] i = 3 ->
              /\ StartsWith(imp.path, "./")
              /\ LET group == SubSeq(imp.path, 3, Len(imp.path) - Len(system_name))
                 IN  \/ group = ""
                     \/ /\ Len(group) >= 2
                        /\ EndsWith(group, "/")
                        /\ AllWordOrSlash(group, 1)

\* rel_path built from the target folder and the name, not from the full
\* new location.
RelPathFolderOnly(system_name, current_folder, target_folder, target_path, d) ==
    IF current_folder = target_folder
    THEN "./" \o system_name
    ELSE Repeat("../", d) \o target_folder \o "/" \o system_name

\* rel_path, lines 118-124.
RelPath(system_name, current_folder, target_folder, target_path, d) ==
    IF current_folder = target_folder
    THEN "./" \o system_name
    ELSE Repeat("../", d) \o target_path

\* Lines 116-126 for one pattern: if re.search finds it, re.sub replaces
\* every match by  from "<rel_path>" .
CrossSub(i, system_name, new_location, content, current_folder, d) ==
    IF \E k \in 1..Len(content) : CrossMatch(i, system_name, content[k])
    THEN [k \in 1..Len(content) |->
            IF CrossMatch(i, system_name, content[k])
            THEN [oq |-> DQ,
                  path |-> RelPath(system_name, current_folder,
                                   SplitFirst(new_location), new_location, d),
                  cq |-> DQ]
            ELSE content[k]]
    ELSE content

\* The inner loop over the three patterns of one relocation entry.
CrossEntry(entry, content, current_folder, d) ==
    CrossSub(3, entry[1], entry[2],
        CrossSub(2, entry[1], entry[2],
            CrossSub(1, entry[1], entry[2], content, current_folder, d),
            current_folder, d),
        current_folder, d)

\* The outer loop, over the entries in the order `items`.  (The comparison
\* makes TLC compute each entry's result before it goes on to the next.)
RECURSIVE CrossLoop(_, _, _, _, _)
CrossLoop(items, i, content, current_folder, d) ==
    IF i > Len(items) THEN content
    ELSE LET rewritten == CrossEntry(items[i], content, current_folder, d)
         IN  IF rewritten = content
             THEN CrossLoop(items, i + 1, content, current_folder, d)
             ELSE CrossLoop(items, i + 1, rewritten, current_folder, d)

fix_cross_system_imports(content, current_folder, d) ==
    CrossLoop(SYSTEM_RELOCATIONS, 1, content, current_folder, d)

----------------------------------------------------------------------------
\* fix_file and the tree

\* Path.read_text() of a file of the tree fs, and the tree after
\* Path.write_text(content).
ReadText(fs, filepath) == fs[filepath]

WriteText(fs, filepath, content) == [fs EXCEPT ![filepath] = content]

\* fix_file without the comparison with the original: it always writes and
\* returns 1.
fix_file_always_writes(filepath, fs) ==
    LET original == ReadText(fs, filepath)
        parts == filepath
    IN  IF Len(parts) < 2
        THEN [ret |-> 0, wrote |-> FALSE, fs |-> fs]
        ELSE LET current_folder == parts[1]
                 d == Len(parts) - 1
                 content == fix_cross_system_imports(
                                fix_external_imports(original, d),
                                current_folder, d)
             IN  [ret |-> 1, wrote |-> TRUE,
                  fs |-> WriteText(fs, filepath, content)]

\* fix_file without the early return for a file at the root of systems/.
fix_file_no_root_guard(filepath, fs) ==
    LET original == ReadText(fs, filepath)
        parts == filepath
        current_folder == parts[1]
        d == Len(parts) - 1
        content == fix_cross_system_imports(
                       fix_external_imports(original, d), current_folder, d)
    IN  IF content # original
        THEN [ret |-> 1, wrote |-> TRUE,
              fs |-> WriteText(fs, filepath, content)]
        ELSE [ret |-> 0, wrote |-> FALSE, fs |-> fs]

\* fix_file(filepath) on the tree fs: the value returned, whether write_text
\* was called, and the tree afterwards.
fix_file(filepath, fs) ==
    LET original == ReadText(fs, filepath)
        parts == filepath
    IN  IF Len(parts) < 2
        THEN [ret |-> 0, wrote |-> FALSE, fs |-> fs]
        ELSE LET current_folder == parts[1]
                 d == Len(parts) - 1
                 content == fix_cross_system_imports(
                                fix_external_imports(original, d),
                                current_folder, d)
             IN  IF content # original
                 THEN [ret |-> 1, wrote |-> TRUE,
                       fs |-> WriteText(fs, filepath, content)]
                 ELSE [ret |-> 0, wrote |-> FALSE, fs |-> fs]

\* folder_path.exists(): some file of the tree lies below the folder.
FolderExists(fs, subfolder) ==
    \E f \in DOMAIN fs : Len(f) >= 2 /\ f[1] = subfolder

\* folder_path.rglob("*.ts"): the files below the folder, at any depth,
\* whose name ends with ".ts".
RGlobTs(fs, subfolder) ==
    {f \in DOMAIN fs : Len(f) >= 2 /\ f[1] = subfolder /\ EndsWith(f[Len(f)], ".ts")}

----------------------------------------------------------------------------
\* Inputs of the model.

Range(seq) == {seq[k] : k \in 1..Len(seq)}

\* Paths of the input clauses: "./" or up to MaxHops "../", then nothing or
\* one directory, then a module name.  "ui-kit" is a directory whose name is
\* not made of word characters; "TimeSystemConfig" is a module whose name
\* starts with a relocated identifier; "Thing" is not relocated.
InPrefixes == {"./"} \cup {Repeat("../", k) : k \in 1..MaxHops}

InDirs == {"types", "world", "shared", "infrastructure", "config", "core", "ui-kit"}

InNames == {"Thing", "TimeSystem", "TimeSystemConfig", "WorldResourceSystem",
            "EconomySystem", "NeedsSystem"}

InPaths ==
    {pre \o mid \o name :
        pre \in InPrefixes, mid \in {""} \cup {dir \o "/" : dir \in InDirs},
        name \in InNames}

\* A well-formed clause opens and closes with the same quote.
InImports == {Import(q, p, q) : q \in QuoteClass, p \in InPaths}

FnTexts == {<<imp>> : imp \in InImports}

\* Folders of the files the rewriters are applied for: the new folders of the
\* relocated names of InNames, and one that is the new folder of none of them.
FnFolders == {"agents", "world", "economy", "core", "social"}

\* The tree the tool runs on: a root file, files at depth 1 and 2 below
\* configured subfolders, and a file rglob("*.ts") does not yield.
TreeFiles ==
    {<<"index.ts">>, <<"agents", "AISystem.ts">>,
     <<"agents", "ai", "AIPlanner.ts">>, <<"economy", "Market.ts">>,
     <<"world", "notes.md">>}

TextExternal ==
    <<Import(SQ, "../../types/Thing", SQ), Import(DQ, "./EconomySystem", DQ)>>

TextCross == <<Import(DQ, "./WorldResourceSystem", DQ)>>

TextPlain == <<Import(DQ, "express", DQ)>>

TreeTexts == {TextExternal, TextCross, TextPlain}

\* The trees main() is run on.
Trees == {fs \in [TreeFiles -> TreeTexts] : fs[<<"world", "notes.md">>] = TextPlain}

\* Other iteration orders of the relocation entries: the reverse order, which
\* swaps every pair of entries, and three rotations.
Reversed(seq) == [k \in 1..Len(seq) |-> seq[Len(seq) + 1 - k]]

Rotated(seq, n) == [k \in 1..Len(seq) |-> seq[((k - 1 + n) % Len(seq)) + 1]]

Orders ==
    {Reversed(SYSTEM_RELOCATIONS)}
        \cup {Rotated(SYSTEM_RELOCATIONS, n) : n \in {1, 11, 23}}

\* Inputs of the order comparison: the clauses the cross-reference patterns
\* are about ("./" or "../", nothing or one directory, a name).
OrderPaths ==
    {pre \o mid \o name :
        pre \in {"./", "../"}, mid \in {"", "world/", "ui-kit/"}, name \in InNames}

OrderTexts ==
    {<<Import(q, p, q)>> : q \in QuoteClass, p \in OrderPaths}
        \cup {<<Import(DQ, "./" \o a, DQ), Import(SQ, "../" \o b, SQ)>> :
                 a \in InNames, b \in InNames}

NoCall == [file |-> <<>>, read |-> <<>>, ret |-> 0, wrote |-> FALSE]

----------------------------------------------------------------------------
\* SpecFn: the two rewriters applied, in any sequence, to one text of a file
\* at a given place.

FnIdle ==
    /\ text = <<>>
    /\ before = <<>>
    /\ last_op = "none"
    /\ cur_folder = ""
    /\ depth = 0

ToolIdle ==
    /\ disk = [f \in TreeFiles |-> <<>>]
    /\ tree0 = disk
    /\ pc = "idle"
    /\ run = 0
    /\ sf = 1
    /\ pending = {}
    /\ total_fixed = 0
    /\ log = <<>>
    /\ summary = <<>>
    /\ visits = [f \in TreeFiles |-> 0]
    /\ written = <<>>
    /\ call = NoCall

InitFn ==
    /\ text \in FnTexts
    /\ before = text
    /\ last_op = "none"
    /\ depth \in 0..MaxDepth
    /\ cur_folder \in (IF depth = 0 THEN {""} ELSE FnFolders)
    /\ ToolIdle

ApplyExternal ==
    /\ text' = fix_external_imports(text, depth)
    /\ before' = text
    /\ last_op' = "external"
    /\ UNCHANGED <<cur_folder, depth>>
    /\ UNCHANGED toolVars

ApplyCross ==
    /\ text' = fix_cross_system_imports(text, cur_folder, depth)
    /\ before' = text
    /\ last_op' = "cross"
    /\ UNCHANGED <<cur_folder, depth>>
    /\ UNCHANGED toolVars

NextFn == ApplyExternal \/ ApplyCross

SpecFn == InitFn /\ [][NextFn]_vars

----------------------------------------------------------------------------
\* SpecOrder: fix_cross_system_imports run with the entries of the dict in
\* another iteration order.

InitOrder ==
    /\ text \in OrderTexts
    /\ before = text
    /\ last_op = "none"
    /\ depth \in 1..MaxDepth
    /\ cur_folder \in FnFolders
    /\ ToolIdle

ApplyCrossReordered ==
    /\ \E items \in Orders :
           text' = CrossLoop(items, 1, text, cur_folder, depth)
    /\ before' = text
    /\ last_op' = "cross_reordered"
    /\ UNCHANGED <<cur_folder, depth>>
    /\ UNCHANGED toolVars

NextOrder == ApplyCrossReordered

SpecOrder == InitOrder /\ [][NextOrder]_vars

----------------------------------------------------------------------------
\* Spec: main() run on a tree, and fix_file called on a file of the tree.

Init ==
    /\ FnIdle
    /\ disk \in Trees
    /\ tree0 = disk
    /\ pc = "idle"
    /\ run = 0
    /\ sf = 1
    /\ pending = {}
    /\ total_fixed = 0
    /\ log = <<>>
    /\ summary = <<>>
    /\ visits = [f \in TreeFiles |-> 0]
    /\ written = <<>>
    /\ call = NoCall

\* main() is entered: total_fixed = 0, the outer loop starts.
MainStart ==
    /\ pc \in {"idle", "done"}
    /\ run < MaxRuns
    /\ run' = run + 1
    /\ pc' = "folders"
    /\ sf' = 1
    /\ pending' = {}
    /\ total_fixed' = 0
    /\ log' = <<>>
    /\ summary' = <<>>
    /\ visits' = [f \in TreeFiles |-> 0]
    /\ written' = <<>>
    /\ UNCHANGED <<disk, tree0, call>>
    /\ UNCHANGED fnVars

\* if not folder_path.exists(): continue
MainSkipFolder ==
    /\ pc = "folders"
    /\ sf <= Len(SUBFOLDERS)
    /\ ~FolderExists(disk, SUBFOLDERS[sf])
    /\ sf' = sf + 1
    /\ UNCHANGED <<disk, tree0, pc, run, pending, total_fixed, log, summary,
                   visits, written, call>>
    /\ UNCHANGED fnVars

\* The inner loop is entered over folder_path.rglob("*.ts").
MainEnterFolder ==
    /\ pc = "folders"
    /\ sf <= Len(SUBFOLDERS)
    /\ FolderExists(disk, SUBFOLDERS[sf])
    /\ pending' = RGlobTs(disk, SUBFOLDERS[sf])
    /\ pc' = "files"
    /\ UNCHANGED <<disk, tree0, run, sf, total_fixed, log, summary, visits,
                   written, call>>
    /\ UNCHANGED fnVars

\* The body of the inner loop with  total_fixed += 1  outside  if fixed: .
MainVisitCountsAll(ts_file) ==
    /\ pc = "files"
    /\ ts_file \in pending
    /\ LET r == fix_file(ts_file, disk)
       IN  /\ disk' = r.fs
           /\ call' = [file |-> ts_file, read |-> ReadText(disk, ts_file),
                       ret |-> r.ret, wrote |-> r.wrote]
           /\ written' = IF r.wrote THEN Append(written, ts_file) ELSE written
           /\ log' = IF r.ret # 0 THEN Append(log, ts_file) ELSE log
           /\ total_fixed' = total_fixed + 1
    /\ pending' = pending \ {ts_file}
    /\ visits' = [visits EXCEPT ![ts_file] = @ + 1]
    /\ UNCHANGED <<tree0, pc, run, sf, summary>>
    /\ UNCHANGED fnVars

\* The body of the inner loop for the next file rglob yields (in any order).
MainVisit(ts_file) ==
    /\ pc = "files"
    /\ ts_file \in pending
    /\ LET r == fix_file(ts_file, disk)
       IN  /\ disk' = r.fs
           /\ call' = [file |-> ts_file, read |-> ReadText(disk, ts_file),
                       ret |-> r.ret, wrote |-> r.wrote]
           /\ written' = IF r.wrote THEN Append(written, ts_file) ELSE written
           /\ IF r.ret # 0
              THEN /\ log' = Append(log, ts_file)
                   /\ total_fixed' = total_fixed + 1
              ELSE UNCHANGED <<log, total_fixed>>
    /\ pending' = pending \ {ts_file}
    /\ visits' = [visits EXCEPT ![ts_file] = @ + 1]
    /\ UNCHANGED <<tree0, pc, run, sf, summary>>
    /\ UNCHANGED fnVars

\* rglob is exhausted: the outer loop goes on with the next subfolder.
MainFolderDone ==
    /\ pc = "files"
    /\ pending = {}
    /\ pc' = "folders"
    /\ sf' = sf + 1
    /\ UNCHANGED <<disk, tree0, run, pending, total_fixed, log, summary,
                   visits, written, call>>
    /\ UNCHANGED fnVars

\* print(f"\nTotal files fixed: {total_fixed}")
MainSummary ==
    /\ pc = "folders"
    /\ sf > Len(SUBFOLDERS)
    /\ summary' = <<total_fixed>>
    /\ pc' = "done"
    /\ UNCHANGED <<disk, tree0, run, sf, pending, total_fixed, log, visits,
                   written, call>>
    /\ UNCHANGED fnVars

\* The module imported and fix_file called once on a file of the tree,
\* instead of main() being run.
CallFixFile(filepath) ==
    /\ pc = "idle"
    /\ LET r == fix_file(filepath, disk)
       IN  /\ disk' = r.fs
           /\ call' = [file |-> filepath, read |-> ReadText(disk, filepath),
                       ret |-> r.ret, wrote |-> r.wrote]
    /\ pc' = "returned"
    /\ UNCHANGED <<tree0, run, sf, pending, total_fixed, log, summary,
                   visits, written>>
    /\ UNCHANGED fnVars

Next ==
    \/ MainStart
    \/ MainSkipFolder
    \/ MainEnterFolder
    \/ \E f \in TreeFiles : MainVisit(f)
    \/ MainFolderDone
    \/ MainSummary
    \/ \E f \in TreeFiles : CallFixFile(f)

Spec == Init /\ [][Next]_vars

----------------------------------------------------------------------------
\* Properties.

ExternalMatchesAny(imp, d) ==
    \E i \in 1..Len(ExternalPatterns(d)) : ExternalMatch(ExternalPatterns(d)[i], imp)

CrossMatchesBy(system_name, imp) ==
    \E i \in 1..3 : CrossMatch(i, system_name, imp)

CrossMatchesAny(imp) ==
    \E e \in Range(SYSTEM_RELOCATIONS) : CrossMatchesBy(e[1], imp)

\* The relocated identifiers the core rule leaves out.
CoreExcluded == {"TimeSystem", "ChunkLoadingSystem", "TerrainSystem"}

\* The external roots with the number of "../" their references had.
ExternalRoots ==
    {[root |-> "types", baseline |-> 2], [root |-> "world", baseline |-> 2],
     [root |-> "shared", baseline |-> 3],
     [root |-> "infrastructure", baseline |-> 3],
     [root |-> "config", baseline |-> 3], [root |-> "core", baseline |-> 1]}

\* The path has exactly r.baseline leading "../" and then the root's name.
RefersToRoot(r, imp) ==
    StartsWith(imp.path, Repeat("../", r.baseline) \o r.root \o "/")

\* The same path with n more leading "../".
Deeper(p, n) == Repeat("../", n) \o p

\* What follows "../core/" in the path.
AfterCore(imp) == DropPrefix(imp.path, Len("../core/"))

\* C1: a run of main() that directly follows a completed run on the same
\* tree writes no file and reports 0 files fixed (the rewrite of fix_file,
\* applied to its own output, changes nothing).
C1_SecondRunFixesNothing ==
    run >= 2 =>
        /\ written = <<>>
        /\ log = <<>>
        /\ (pc = "done" => summary = <<0>>)

\* C2: at depth >= 1, a clause rewritten by a cross-reference rule is matched
\* by none of the six external patterns, a clause rewritten by an external
\* rule is matched by no cross-reference pattern, and a clause rewritten by
\* the rule of one identifier is matched by no rule of another identifier.
C2_NoDoubleRewrite ==
    depth >= 1 =>
        /\ (last_op = "cross" =>
              \A k \in 1..Len(text) :
                  CrossMatchesAny(before[k]) => ~ExternalMatchesAny(text[k], depth))
        /\ (last_op = "external" =>
              \A k \in 1..Len(text) :
                  ExternalMatchesAny(before[k], depth) => ~CrossMatchesAny(text[k]))
        /\ (last_op = "cross" =>
              \A k \in 1..Len(text) : \A e \in Range(SYSTEM_RELOCATIONS) :
                  CrossMatchesBy(e[1], before[k]) =>
                      \A o \in Range(SYSTEM_RELOCATIONS) \ {e} :
                          ~CrossMatchesBy(o[1],
                               CrossEntry(e, <<before[k]>>, cur_folder, depth)[1]))

\* C3 as claimed: after fix_external_imports(content, d), d in 0..MaxDepth,
\* every clause that had exactly the baseline number of "../" followed by an
\* external root has baseline + d of them, followed by the same root and the
\* same remaining path.
C3_EveryRootReferenceDeepened ==
    last_op = "external" =>
        \A k \in 1..Len(text) : \A r \in ExternalRoots :
            RefersToRoot(r, before[k]) =>
                text[k].path = Deeper(before[k].path, depth)

\* C3 amended: the same, for every clause the root's rule matches: for the
\* core root these are the clauses in which "../core/" is not directly
\* followed by TimeSystem, ChunkLoadingSystem or TerrainSystem.
C3_MatchedReferenceDeepened ==
    last_op = "external" =>
        \A k \in 1..Len(text) : \A r \in ExternalRoots :
            (/\ RefersToRoot(r, before[k])
             /\ (r.root = "core" =>
                    \A x \in CoreExcluded : ~StartsWith(AfterCore(before[k]), x)))
                => text[k].path = Deeper(before[k].path, depth)

\* C3 witness: a reference to ../../../shared/ and one to ../core/ rewritten
\* for a file at the deepest level.
C3_Witness ==
    /\ last_op = "external"
    /\ depth = MaxDepth
    /\ \E k \in 1..Len(text) :
           /\ before[k].path \in {"../../../shared/Thing", "../core/Thing"}
           /\ text[k].path = Deeper(before[k].path, MaxDepth)

\* The path is a reference to the identifier written as "./I", "../I" or
\* "./<subpath>/I", the subpath being any non-empty text.
RefersToModule(id, p) ==
    \/ p = "./" \o id
    \/ p = "../" \o id
    \/ /\ StartsWith(p, "./")
       /\ EndsWith(p, "/" \o id)
       /\ Len(p) >= Len(id) + 4

\* The subpath of a reference "./<subpath>/I".
Subpath(id, p) == SubSeq(p, 3, Len(p) - Len(id) - 1)

\* The path a reference to the entry is rewritten to in a file of the folder.
Resolved(e, folder, d) ==
    IF folder = SplitFirst(e[2]) THEN "./" \o e[1] ELSE Repeat("../", d) \o e[2]

\* C4 as claimed: fix_cross_system_imports, for a file at depth >= 1, rewrites
\* every reference "./I", "../I" or "./<subpath>/I" to a relocated identifier
\* to depth times "../" and the new path of I, or to "./I" when the file's
\* folder is the new folder of I.
C4_EveryReferenceResolved ==
    (last_op = "cross" /\ depth >= 1) =>
        \A k \in 1..Len(text) : \A e \in Range(SYSTEM_RELOCATIONS) :
            RefersToModule(e[1], before[k].path) =>
                text[k].path = Resolved(e, cur_folder, depth)

\* C4 amended: the same, for the references "./<subpath>/I" whose subpath is
\* made of word characters and "/" only.
C4_WordSubpathResolved ==
    (last_op = "cross" /\ depth >= 1) =>
        \A k \in 1..Len(text) : \A e \in Range(SYSTEM_RELOCATIONS) :
            (/\ RefersToModule(e[1], before[k].path)
             /\ (before[k].path \notin {"./" \o e[1], "../" \o e[1]} =>
                    AllWordOrSlash(Subpath(e[1], before[k].path), 1)))
                => text[k].path = Resolved(e, cur_folder, depth)

\* C4 witness: a reference through a subfolder to an identifier relocated
\* into a nested folder, rewritten for a file two levels down another folder.
C4_Witness ==
    /\ last_op = "cross"
    /\ depth = 2
    /\ cur_folder = "economy"
    /\ \E k \in 1..Len(text) :
           /\ before[k].path = "./world/NeedsSystem"
           /\ text[k].path = "../../agents/needs/NeedsSystem"

\* C5: for a file at depth >= 1, fix_external_imports rewrites "../core/<name>"
\* to 1 + depth "../" for every name that is not TimeSystem, ChunkLoadingSystem
\* or TerrainSystem, and leaves the clause untouched exactly when it is one.
C5_CoreExclusion ==
    (last_op = "external" /\ depth >= 1) =>
        \A k \in 1..Len(text) :
            StartsWith(before[k].path, "../core/") =>
                IF AfterCore(before[k]) \in CoreExcluded
                THEN text[k] = before[k]
                ELSE /\ text[k] # before[k]
                     /\ text[k].path = Deeper(before[k].path, depth)

\* No configured pattern matches a clause of the content of a file at depth d.
NoPatternMatches(content, d) ==
    \A k \in 1..Len(content) :
        ~ExternalMatchesAny(content[k], d) /\ ~CrossMatchesAny(content[k])

\* C6: fix_file calls write_text if and only if the content it leaves differs
\* from the content it read, and returns 1 exactly when it wrote; a file no
\* pattern matches keeps its content and the call returns 0.
C6_WriteOnlyOnChange ==
    call.file # <<>> =>
        /\ call.wrote <=> (disk[call.file] # call.read)
        /\ call.ret = (IF call.wrote THEN 1 ELSE 0)
        /\ (NoPatternMatches(call.read, get_depth(call.file)) =>
               (disk[call.file] = call.read /\ call.ret = 0))

\* C6 witness: a call that wrote, on a file some pattern matches.
C6_Witness ==
    /\ call.file # <<>>
    /\ call.wrote
    /\ call.ret = 1
    /\ disk[call.file] # call.read

\* C7: a file at the root of systems/ keeps its content, is never written,
\* never named in a progress line, never visited by main(), and fix_file
\* returns 0 for it.
C7_RootFileSkipped ==
    \A f \in TreeFiles :
        get_depth(f) = 0 =>
            /\ disk[f] = tree0[f]
            /\ f \notin Range(log)
            /\ f \notin Range(written)
            /\ f \notin pending
            /\ visits[f] = 0
            /\ (call.file = f => (call.ret = 0 /\ ~call.wrote))

\* C7 witness: fix_file has returned for a root file whose content holds
\* imports the patterns match.
C7_Witness ==
    /\ pc = "returned"
    /\ call.file = <<"index.ts">>
    /\ call.read = TextExternal
    /\ ~NoPatternMatches(call.read, 1)

\* C8: for a file at depth >= 1, fix_cross_system_imports run with the entries
\* in another iteration order gives the text it gives in the dict's order.
C8_OrderIndependent ==
    (last_op = "cross_reordered" /\ depth >= 1) =>
        text = fix_cross_system_imports(before, cur_folder, depth)

\* C8 witness: a reordered run that rewrote references to two identifiers.
C8_Witness ==
    /\ last_op = "cross_reordered"
    /\ depth >= 1
    /\ Len(text) = 2
    /\ text[1] # before[1]
    /\ text[2] # before[2]
    /\ before[1].path # "./" \o DropPrefix(before[2].path, 3)

\* rglob("*.ts") below a configured subfolder yields the file.
Eligible(f) ==
    /\ Len(f) >= 2
    /\ f[1] \in Range(SUBFOLDERS)
    /\ EndsWith(f[Len(f)], ".ts")

\* C9: in a run of main() no file is passed to fix_file twice, the progress
\* lines are the files written, the counter is their number, and when the run
\* is complete every eligible file was passed to fix_file exactly once, no
\* other file was, and the summary is the number of files written.
C9_RunOutput ==
    /\ \A f \in TreeFiles : visits[f] <= 1
    /\ log = written
    /\ total_fixed = Len(written)
    /\ (pc = "done" =>
          /\ \A f \in TreeFiles : visits[f] = (IF Eligible(f) THEN 1 ELSE 0)
          /\ summary = <<Len(written)>>)

\* C9 witness: a complete run that wrote some of the eligible files and left
\* another one as it was.
C9_Witness ==
    /\ pc = "done"
    /\ Len(written) = 2
    /\ \E f \in TreeFiles : Eligible(f) /\ f \notin Range(written)

\* C10: at depth >= 1, a rewriter given clauses that open and close with the
\* same quote returns clauses that open and close with the same quote.
C10_QuotesAgree ==
    (last_op \in {"external", "cross"} /\ depth >= 1) =>
        ((\A k \in 1..Len(before) : before[k].oq = before[k].cq) =>
            (\A k \in 1..Len(text) : text[k].oq = text[k].cq))

====
